---- MODULE Spec2Model ----
(***************************************************************************)
(* Model of the number-guessing game session of src/src/lib.rs: the Game   *)
(* struct (secret, max, attempts, finished) and its operations new, reset, *)
(* guess, get_attempts and get_max.  The random draw of generate_secret is *)
(* a nondeterministic choice over the inclusive range it draws from.       *)
(***************************************************************************)
EXTENDS Integers, Sequences, FiniteSets, TLC

(* ------------------------------ bounds ------------------------------ *)

\* Largest upper bound a caller supplies to new / reset (0 is included).
MaxBound == 4

\* Cap on the attempts counter explored by the model.
MaxAttempts == 3

(* --------------------------- program constants ---------------------- *)

\* unwrap_or(100): the default upper bound of new.
DefaultMax == 100

\* attempts is the one field the code does arithmetic on, so it keeps its
\* full 32-bit width: a u32 is the pair <<high, low>> of its 16-bit halves
\* (a 32-bit value does not fit the model checker's integers).
Half == 65536

\* u32::MAX
U32Max == <<Half - 1, Half - 1>>

(* ------------------------------ helpers ----------------------------- *)

\* Option<u32>: the empty sequence is None, <<n>> is Some(n).
None == <<>>

Some(n) == <<n>>

\* Option::unwrap_or
unwrap_or(opt, default) == IF opt = None THEN default ELSE opt[1]

\* Ord::max on u32 (the clamp `.max(1)`).
u32_max(a, b) == IF a >= b THEN a ELSE b

\* The u32 of a number below 2^31, and the number of a u32 below 2^31.
u32(n) == <<n \div Half, n % Half>>

ToInt(a) == a[1] * Half + a[2]

\* a <= b on u32
u32_le(a, b) == a[1] < b[1] \/ (a[1] = b[1] /\ a[2] <= b[2])

\* u32::wrapping_add
wrapping_add(a, b) ==
    LET low  == a[2] + b[2]
        high == a[1] + b[1] + (low \div Half)
    IN  <<high % Half, low % Half>>

\* u32::saturating_add
saturating_add(a, b) ==
    LET low  == a[2] + b[2]
        high == a[1] + b[1] + (low \div Half)
    IN  IF high >= Half THEN U32Max ELSE <<high, low % Half>>

\* generate_secret drawing from 0..=max.
generate_secret_from_zero(m) == 0 .. m

\* generate_secret draws from 1..=max; the model keeps every possible draw.
generate_secret(m) == 1 .. m

\* The Game struct.
Game(s, m, a, f) == [secret |-> s, max |-> m, attempts |-> a, finished |-> f]

(* ------------------------- values returned -------------------------- *)

\* What a call hands back to its caller: nothing (reset), a thrown
\* exception (guess out of range), a serialized GuessResponse, or a u32.
Unit == [kind |-> "unit", result |-> "", attempts |-> u32(0)]

Throw == [kind |-> "throw", result |-> "Guess out of range", attempts |-> u32(0)]

GuessResponse(r, a) == [kind |-> "response", result |-> r, attempts |-> a]

U32(n) == [kind |-> "u32", result |-> "", attempts |-> n]

(* ----------------------------- operations --------------------------- *)

\* new without the clamp of the bound to 1.
new_no_clamp(m) ==
    LET max_bound == unwrap_or(m, DefaultMax)
    IN  { Game(s, max_bound, u32(0), FALSE) : s \in generate_secret(max_bound) }

\* Game::new: the set of sessions a construction can produce.
new(m) ==
    LET max_bound == u32_max(unwrap_or(m, DefaultMax), 1)
    IN  { Game(s, max_bound, u32(0), FALSE) : s \in generate_secret(max_bound) }

\* reset that leaves the attempts counter alone.
reset_keeps_attempts(self, m) ==
    LET max1 == IF m # None THEN u32_max(m[1], 1) ELSE self.max
    IN  { Game(s, max1, self.attempts, FALSE) : s \in generate_secret(max1) }

\* reset that leaves the finished flag alone.
reset_keeps_finished(self, m) ==
    LET max1 == IF m # None THEN u32_max(m[1], 1) ELSE self.max
    IN  { Game(s, max1, u32(0), self.finished) : s \in generate_secret(max1) }

\* reset that falls back to the default bound, as new does, when no bound
\* is supplied.
reset_default_on_none(self, m) ==
    LET max1 == u32_max(unwrap_or(m, DefaultMax), 1)
    IN  { Game(s, max1, u32(0), FALSE) : s \in generate_secret(max1) }

\* Game::reset: the set of sessions a reset of `self` can produce.
reset(self, m) ==
    LET max1 == IF m # None THEN u32_max(m[1], 1) ELSE self.max
    IN  { Game(s, max1, u32(0), FALSE) : s \in generate_secret(max1) }

\* guess with the lower half of the range check left out.
guess_no_lower_check(self, value) ==
    IF value > self.max
    THEN [game |-> self, ret |-> Throw]
    ELSE IF self.finished
    THEN [game |-> self, ret |-> GuessResponse("correct", self.attempts)]
    ELSE LET attempts1 == saturating_add(self.attempts, u32(1))
             result    == IF value < self.secret THEN "low"
                          ELSE IF value > self.secret THEN "high"
                          ELSE "correct"
             finished1 == IF result = "correct" THEN TRUE ELSE self.finished
         IN  [game |-> Game(self.secret, self.max, attempts1, finished1),
              ret  |-> GuessResponse(result, attempts1)]

\* guess with the two comparison branches swapped.
guess_swapped(self, value) ==
    IF value < 1 \/ value > self.max
    THEN [game |-> self, ret |-> Throw]
    ELSE IF self.finished
    THEN [game |-> self, ret |-> GuessResponse("correct", self.attempts)]
    ELSE LET attempts1 == saturating_add(self.attempts, u32(1))
             result    == IF value < self.secret THEN "high"
                          ELSE IF value > self.secret THEN "low"
                          ELSE "correct"
             finished1 == IF result = "correct" THEN TRUE ELSE self.finished
         IN  [game |-> Game(self.secret, self.max, attempts1, finished1),
              ret  |-> GuessResponse(result, attempts1)]

\* guess without the early return of a finished game.
guess_no_finished_check(self, value) ==
    IF value < 1 \/ value > self.max
    THEN [game |-> self, ret |-> Throw]
    ELSE LET attempts1 == saturating_add(self.attempts, u32(1))
             result    == IF value < self.secret THEN "low"
                          ELSE IF value > self.secret THEN "high"
                          ELSE "correct"
             finished1 == IF result = "correct" THEN TRUE ELSE self.finished
         IN  [game |-> Game(self.secret, self.max, attempts1, finished1),
              ret  |-> GuessResponse(result, attempts1)]

\* guess with the finished check made before the range check.
guess_finished_first(self, value) ==
    IF self.finished
    THEN [game |-> self, ret |-> GuessResponse("correct", self.attempts)]
    ELSE IF value < 1 \/ value > self.max
    THEN [game |-> self, ret |-> Throw]
    ELSE LET attempts1 == saturating_add(self.attempts, u32(1))
             result    == IF value < self.secret THEN "low"
                          ELSE IF value > self.secret THEN "high"
                          ELSE "correct"
             finished1 == IF result = "correct" THEN TRUE ELSE self.finished
         IN  [game |-> Game(self.secret, self.max, attempts1, finished1),
              ret  |-> GuessResponse(result, attempts1)]

\* guess with the "high" branch left out, so that any guess at or above the
\* secret wins.
guess_high_is_correct(self, value) ==
    IF value < 1 \/ value > self.max
    THEN [game |-> self, ret |-> Throw]
    ELSE IF self.finished
    THEN [game |-> self, ret |-> GuessResponse("correct", self.attempts)]
    ELSE LET attempts1 == saturating_add(self.attempts, u32(1))
             result    == IF value < self.secret THEN "low" ELSE "correct"
             finished1 == IF result = "correct" THEN TRUE ELSE self.finished
         IN  [game |-> Game(self.secret, self.max, attempts1, finished1),
              ret  |-> GuessResponse(result, attempts1)]

\* guess that evaluates every in-range guess and assigns finished from the
\* comparison.
guess_reevaluates(self, value) ==
    IF value < 1 \/ value > self.max
    THEN [game |-> self, ret |-> Throw]
    ELSE LET attempts1 == saturating_add(self.attempts, u32(1))
             result    == IF value < self.secret THEN "low"
                          ELSE IF value > self.secret THEN "high"
                          ELSE "correct"
             finished1 == (result = "correct")
         IN  [game |-> Game(self.secret, self.max, attempts1, finished1),
              ret  |-> GuessResponse(result, attempts1)]

\* guess whose range check rejects the upper bound itself.
guess_strict_upper(self, value) ==
    IF value < 1 \/ value >= self.max
    THEN [game |-> self, ret |-> Throw]
    ELSE IF self.finished
    THEN [game |-> self, ret |-> GuessResponse("correct", self.attempts)]
    ELSE LET attempts1 == saturating_add(self.attempts, u32(1))
             result    == IF value < self.secret THEN "low"
                          ELSE IF value > self.secret THEN "high"
                          ELSE "correct"
             finished1 == IF result = "correct" THEN TRUE ELSE self.finished
         IN  [game |-> Game(self.secret, self.max, attempts1, finished1),
              ret  |-> GuessResponse(result, attempts1)]

\* guess that counts the attempt before it checks the range.
guess_counts_rejected(self, value) ==
    LET attempts1 == saturating_add(self.attempts, u32(1))
    IN  IF value < 1 \/ value > self.max
        THEN [game |-> Game(self.secret, self.max, attempts1, self.finished),
              ret  |-> Throw]
        ELSE IF self.finished
        THEN [game |-> self, ret |-> GuessResponse("correct", self.attempts)]
        ELSE LET result    == IF value < self.secret THEN "low"
                              ELSE IF value > self.secret THEN "high"
                              ELSE "correct"
                 finished1 == IF result = "correct" THEN TRUE ELSE self.finished
             IN  [game |-> Game(self.secret, self.max, attempts1, finished1),
                  ret  |-> GuessResponse(result, attempts1)]

\* guess that puts the secret in the attempts field of its response.
guess_leaks_secret(self, value) ==
    IF value < 1 \/ value > self.max
    THEN [game |-> self, ret |-> Throw]
    ELSE IF self.finished
    THEN [game |-> self, ret |-> GuessResponse("correct", self.attempts)]
    ELSE LET attempts1 == saturating_add(self.attempts, u32(1))
             result    == IF value < self.secret THEN "low"
                          ELSE IF value > self.secret THEN "high"
                          ELSE "correct"
             finished1 == IF result = "correct" THEN TRUE ELSE self.finished
         IN  [game |-> Game(self.secret, self.max, attempts1, finished1),
              ret  |-> GuessResponse(result, u32(self.secret))]

\* Game::guess: the session after the call and the value returned.
guess(self, value) ==
    IF value < 1 \/ value > self.max
    THEN [game |-> self, ret |-> Throw]
    ELSE IF self.finished
    THEN [game |-> self, ret |-> GuessResponse("correct", self.attempts)]
    ELSE LET attempts1 == saturating_add(self.attempts, u32(1))
             result    == IF value < self.secret THEN "low"
                          ELSE IF value > self.secret THEN "high"
                          ELSE "correct"
             finished1 == IF result = "correct" THEN TRUE ELSE self.finished
         IN  [game |-> Game(self.secret, self.max, attempts1, finished1),
              ret  |-> GuessResponse(result, attempts1)]

\* Game::get_attempts
get_attempts(self) == self.attempts

\* Game::get_max
get_max(self) == self.max

(* ------------------------------- state ------------------------------ *)

\* secret, max, attempts, finished: the fields of the session.
\* op, arg, ret: the last call made on it, its argument and what it returned.
\* before: the session as it was when that call was made.
\* counted: the number of in-range guesses made on an unfinished game since
\*   the session was constructed or last reset, as <<high, low>> in base
\*   Half with no limit on high (it is not cut to 32 bits).
\* log, lo, hi: what a player keeps: the <<value, result>> of every guess
\*   answered since the session was constructed or last reset, and the
\*   interval a binary search is down to.
VARIABLES secret, max, attempts, finished, op, arg, ret, before, counted,
          log, lo, hi

fields == <<secret, max, attempts, finished>>

player == <<log, lo, hi>>

vars == <<secret, max, attempts, finished, op, arg, ret, before, counted,
          log, lo, hi>>

\* The session as a Game value.
this == Game(secret, max, attempts, finished)

\* Upper bounds a caller passes to new / reset: absent, or 0 .. MaxBound.
OptionArgs == {None} \cup { Some(n) : n \in 0 .. MaxBound }

\* Values a caller passes to guess: 0, every value a supplied bound can
\* put in range, and one beyond the largest supplied bound.
GuessArgs == 0 .. (MaxBound + 1)

\* The counter values the model explores: up to MaxAttempts from zero, and
\* the last MaxAttempts + 1 values below and at u32::MAX.
Explored(a) ==
    \/ u32_le(a, u32(MaxAttempts))
    \/ u32_le(<<Half - 1, Half - 1 - MaxAttempts>>, a)

\* The guesses counted that the model explores: any number that fits 32
\* bits, and up to MaxAttempts + 1 beyond.
CountExplored(c) == c[1] < Half \/ c[2] <= MaxAttempts

\* c + 1 on a count.
CountNext(c) == IF c[2] = Half - 1 THEN <<c[1] + 1, 0>> ELSE <<c[1], c[2] + 1>>

\* The session becomes g.
Becomes(g) ==
    /\ secret' = g.secret
    /\ max' = g.max
    /\ attempts' = g.attempts
    /\ finished' = g.finished

\* The session is g, fresh from new(m).
Constructed(m, g) ==
    /\ secret = g.secret
    /\ max = g.max
    /\ attempts = g.attempts
    /\ finished = g.finished
    /\ op = "new"
    /\ arg = m
    /\ ret = Unit
    /\ before = g
    /\ counted = u32(0)

\* A call of reset(m) whose draw gives the session g.
ResetCall(m, g) ==
    /\ Becomes(g)
    /\ op' = "reset"
    /\ arg' = m
    /\ ret' = Unit
    /\ before' = this
    /\ counted' = u32(0)

\* A call of guess(value).
GuessCall(value) ==
    LET r == guess(this, value)
    IN  /\ Becomes(r.game)
        /\ op' = "guess"
        /\ arg' = Some(value)
        /\ ret' = r.ret
        /\ before' = this
        /\ counted' = IF 1 <= value /\ value <= max /\ ~finished
                      THEN CountNext(counted)
                      ELSE counted

\* A player who keeps nothing.
NoPlayer == log = <<>> /\ lo = 0 /\ hi = 0

\* A session fresh from the constructor.
Init ==
    \E m \in OptionArgs :
        \E g \in new(m) :
            /\ Constructed(m, g)
            /\ NoPlayer

Reset ==
    \E m \in OptionArgs :
        \E g \in reset(this, m) :
            /\ ResetCall(m, g)
            /\ UNCHANGED player

Guess ==
    \E value \in GuessArgs :
        /\ Explored(guess(this, value).game.attempts)
        /\ GuessCall(value)
        /\ CountExplored(counted')
        /\ UNCHANGED player

GetAttempts ==
    /\ op' = "get_attempts"
    /\ arg' = None
    /\ ret' = U32(get_attempts(this))
    /\ before' = this
    /\ UNCHANGED <<fields, counted, player>>

GetMax ==
    /\ op' = "get_max"
    /\ arg' = None
    /\ ret' = U32(u32(get_max(this)))
    /\ before' = this
    /\ UNCHANGED <<fields, counted, player>>

Next == Reset \/ Guess \/ GetAttempts \/ GetMax

Spec == Init /\ [][Next]_vars

\* A session that was constructed, took u32::MAX - k wrong guesses (which
\* needs a range with a wrong value in it, max >= 2) and was then asked for
\* its attempts.
InitLongGame ==
    \E m \in OptionArgs :
        \E g \in new(m) :
            \E k \in 0 .. MaxAttempts :
                /\ g.max >= 2
                /\ secret = g.secret
                /\ max = g.max
                /\ attempts = <<Half - 1, Half - 1 - k>>
                /\ finished = FALSE
                /\ op = "get_attempts"
                /\ arg = None
                /\ ret = U32(attempts)
                /\ before = Game(g.secret, g.max, attempts, FALSE)
                /\ counted = attempts
                /\ NoPlayer

SpecLongGame == InitLongGame /\ [][Next]_vars

\* A player who guesses every value of the range once, in any order, on a
\* session fresh from the constructor or from reset.  The bound is always
\* supplied: the default range is too long to take in every order.
InitSweep ==
    \E n \in 0 .. MaxBound :
        \E g \in new(Some(n)) :
            /\ Constructed(Some(n), g)
            /\ NoPlayer

SweepGuess ==
    \E value \in 1 .. max :
        /\ \A i \in 1 .. Len(log) : log[i][1] # value
        /\ GuessCall(value)
        /\ log' = Append(log, <<value, ret'.result>>)
        /\ UNCHANGED <<lo, hi>>

SweepReset ==
    \E m \in OptionArgs :
        \E g \in reset(this, m) :
            /\ ResetCall(m, g)
            /\ log' = <<>>
            /\ UNCHANGED <<lo, hi>>

NextSweep == SweepGuess \/ SweepReset

SpecSweep == InitSweep /\ [][NextSweep]_vars

\* A player who searches the range of a session fresh from the constructor
\* by halving: the midpoint of [lo, hi] is guessed, "low" moves lo above it
\* and "high" moves hi below it, until the answer is "correct".
InitSearch ==
    \E m \in OptionArgs :
        \E g \in new(m) :
            /\ Constructed(m, g)
            /\ log = <<>>
            /\ lo = 1
            /\ hi = g.max

SearchGuess ==
    LET mid == (lo + hi) \div 2
    IN  /\ lo <= hi
        /\ IF log = <<>> THEN TRUE ELSE log[Len(log)][2] # "correct"
        /\ GuessCall(mid)
        /\ log' = Append(log, <<mid, ret'.result>>)
        /\ lo' = IF ret'.result = "low" THEN mid + 1 ELSE lo
        /\ hi' = IF ret'.result = "high" THEN mid - 1 ELSE hi

NextSearch == SearchGuess

SpecSearch == InitSearch /\ [][NextSearch]_vars

TypeOK ==
    /\ secret \in Nat
    /\ max \in Nat
    /\ attempts \in (0 .. Half - 1) \X (0 .. Half - 1)
    /\ finished \in BOOLEAN
    /\ op \in {"new", "reset", "guess", "get_attempts", "get_max"}
    /\ before.finished \in BOOLEAN
    /\ counted \in Nat \X (0 .. Half - 1)
    /\ lo \in Nat /\ hi \in Nat

(* ------------------------------ properties -------------------------- *)

\* value lies in the range [1, m] of a session whose upper bound is m.
InRange(value, m) == 1 <= value /\ value <= m

\* C1: in every state reached by the constructor followed by any resets and
\* guesses, whatever upper bounds were supplied (0 and absent included),
\* max >= 1 and 1 <= secret <= max.
C1_SecretWithinBounds == max >= 1 /\ 1 <= secret /\ secret <= max

\* A reset to the bound 0 of a session that had a wider range and a guess
\* counted.
C1_Witness ==
    /\ op = "reset" /\ arg = Some(0)
    /\ before.max > 1 /\ before.attempts # u32(0)
    /\ max = 1 /\ secret = 1

\* C2: a guess below 1 or above max throws the out-of-range exception and
\* leaves secret, max, attempts and finished as they were.
C2_OutOfRangeRejected ==
    (op = "guess" /\ ~InRange(arg[1], before.max))
        => (ret = Throw /\ this = before)

\* Guess(max + 1) thrown on a session that has already counted a guess.
C2_Witness ==
    /\ op = "guess" /\ arg = Some(before.max + 1)
    /\ ret = Throw
    /\ before.attempts # u32(0)

\* C3: an in-range guess on an unfinished game answers "low" when below the
\* secret, "high" when above it and "correct" when equal to it, never
\* anything else, and the attempts it returns are the session's attempts
\* after the call.
C3_GuessOutcome ==
    (op = "guess" /\ InRange(arg[1], before.max) /\ ~before.finished)
        => /\ ret.kind = "response"
           /\ ret.result \in {"low", "high", "correct"}
           /\ (ret.result = "low") <=> (arg[1] < before.secret)
           /\ (ret.result = "high") <=> (arg[1] > before.secret)
           /\ (ret.result = "correct") <=> (arg[1] = before.secret)
           /\ ret.attempts = attempts

\* A second counted guess that was too high.
C3_Witness ==
    /\ op = "guess" /\ ~before.finished
    /\ arg[1] > secret
    /\ ret = GuessResponse("high", u32(2))

\* C4: on a finished game every in-range guess, equal to the secret or not,
\* answers "correct" with the current attempts and changes no field.
C4_PostWinIdempotent ==
    (op = "guess" /\ InRange(arg[1], before.max) /\ before.finished)
        => (ret = GuessResponse("correct", before.attempts) /\ this = before)

\* A guess that misses the secret, made after the game was won.
C4_Witness ==
    /\ op = "guess" /\ before.finished
    /\ InRange(arg[1], max) /\ arg[1] # secret
    /\ ret.result = "correct"

\* C5: the range check comes before the finished check: on a finished game
\* an out-of-range guess throws and never answers "correct".
C5_RangeCheckFirst ==
    (op = "guess" /\ before.finished /\ ~InRange(arg[1], before.max))
        => (ret.kind = "throw" /\ ret.result # "correct")

\* Guess(0) thrown on a game that was won.
C5_Witness ==
    /\ op = "guess" /\ before.finished /\ finished
    /\ arg = Some(0)
    /\ ret = Throw

\* b is a + 1 on u32, without overflow.
IsSuccessor(a, b) ==
    \/ a[2] < Half - 1 /\ b = <<a[1], a[2] + 1>>
    \/ a[2] = Half - 1 /\ a[1] < Half - 1 /\ b = <<a[1] + 1, 0>>

\* C6, as stated: every in-range guess on an unfinished game raises attempts
\* by exactly 1.
C6_AlwaysIncrements ==
    (op = "guess" /\ InRange(arg[1], before.max) /\ ~before.finished)
        => IsSuccessor(before.attempts, attempts)

\* C6, amended: every in-range guess on an unfinished game raises attempts by
\* exactly 1 while attempts is below u32::MAX, and leaves it at u32::MAX once
\* it is there.
C6_IncrementsBelowMax ==
    (op = "guess" /\ InRange(arg[1], before.max) /\ ~before.finished)
        => IF before.attempts = U32Max
           THEN attempts = U32Max
           ELSE IsSuccessor(before.attempts, attempts)

\* A wrong guess counted on a session whose counter is already at u32::MAX.
C6_Witness ==
    /\ op = "guess" /\ InRange(arg[1], before.max) /\ ~before.finished
    /\ before.attempts = U32Max
    /\ ret = GuessResponse("low", U32Max)

\* C7: finished goes from false to true in a call exactly when the call is
\* an in-range guess equal to the secret made on an unfinished game.
C7_WonExactlyOnCorrectGuess ==
    (~before.finished /\ finished)
        <=> /\ op = "guess"
            /\ ~before.finished
            /\ InRange(arg[1], before.max)
            /\ arg[1] = before.secret

\* The game won at the third guess.
C7_Witness ==
    /\ op = "guess" /\ ~before.finished /\ finished
    /\ arg = Some(secret)
    /\ attempts = u32(3)

\* C8: once finished is true it stays true across every guess, in range or
\* not, and every query; only a reset makes it false again.
C8_WonUntilReset ==
    (before.finished /\ op # "reset") => finished

\* An in-range guess below the secret made after the win, finished still
\* true.
C8_Witness ==
    /\ op = "guess" /\ before.finished /\ finished
    /\ InRange(arg[1], max) /\ arg[1] < secret

\* C9: reset never fails, whatever the history and the bound supplied, and
\* leaves attempts = 0, finished = false, max the previous max when no bound
\* is supplied and the larger of the bound and 1 otherwise, and a secret
\* within [1, max].
C9_ResetFresh ==
    /\ \A m \in OptionArgs : reset(this, m) # {}
    /\ (op = "reset")
        => /\ ret = Unit
           /\ attempts = u32(0)
           /\ ~finished
           /\ max = (IF arg = None THEN before.max
                     ELSE IF arg[1] >= 1 THEN arg[1] ELSE 1)
           /\ InRange(secret, max)

\* A reset without a bound of a game won after several guesses, drawing
\* another secret.
C9_Witness ==
    /\ op = "reset" /\ arg = None
    /\ before.finished /\ before.attempts = u32(3)
    /\ secret # before.secret

\* C10: from every reachable session, the sessions reset can produce without
\* a bound are the sessions the constructor produces for the current max,
\* and those it can produce with a bound m are the sessions the constructor
\* produces for m; every reset that happens lands in that set.
C10_ResetIsFreshSession ==
    /\ \A m \in OptionArgs :
           reset(this, m) = new(IF m = None THEN Some(max) ELSE m)
    /\ (op = "reset")
        => this \in new(IF arg = None THEN Some(before.max) ELSE arg)

\* A reset with a new bound of a game that was won.
C10_Witness ==
    /\ op = "reset" /\ arg # None /\ arg[1] > 1
    /\ before.finished /\ before.max # max

\* C11: the constructor never fails; without a bound it gives max = 100,
\* with a bound m the larger of m and 1 (1 for the bound 0), which is what
\* get_max answers; the new session has attempts = 0, finished = false and
\* a secret within [1, max].
C11_ConstructFresh ==
    /\ \A m \in OptionArgs :
           /\ new(m) # {}
           /\ \A g \in new(m) :
                  get_max(g) = (IF m = None THEN 100
                                ELSE IF m[1] >= 1 THEN m[1] ELSE 1)
    /\ (op = "new")
        => /\ ret = Unit
           /\ max = (IF arg = None THEN 100
                     ELSE IF arg[1] >= 1 THEN arg[1] ELSE 1)
           /\ get_max(this) = max
           /\ attempts = u32(0)
           /\ ~finished
           /\ InRange(secret, max)

\* A session constructed without a bound, its secret in the upper half of
\* the default range.
C11_Witness ==
    /\ op = "new" /\ arg = None
    /\ max = 100 /\ secret > 50

\* C12: a bound of 0 given to the constructor or to reset leaves max = 1;
\* on a fresh session with max = 1 every guess but 1 throws, and Guess(1)
\* answers "correct" with attempts = 1.
C12_ClampedToOne ==
    /\ (op \in {"new", "reset"} /\ arg = Some(0))
        => /\ max = 1
           /\ \A value \in GuessArgs :
                  guess(this, value).ret =
                      (IF value = 1 THEN GuessResponse("correct", u32(1))
                       ELSE Throw)
    /\ (op = "guess" /\ before.max = 1
            /\ before.attempts = u32(0) /\ ~before.finished)
        => /\ (arg # Some(1)) => (ret = Throw /\ this = before)
           /\ (arg = Some(1))
                  => (ret = GuessResponse("correct", u32(1)) /\ finished)

\* The first Guess(1) on a session whose range is [1, 1].
C12_Witness ==
    /\ op = "guess" /\ arg = Some(1)
    /\ before.max = 1 /\ before.attempts = u32(0) /\ ~before.finished
    /\ ret = GuessResponse("correct", u32(1))

\* The player has guessed every value of [1, max] once.
SweepDone == Len(log) = max

\* The answer that the ordering of value against the secret calls for.
Ordering(value) ==
    IF value < secret THEN "low" ELSE IF value > secret THEN "high" ELSE "correct"

\* C13, as stated: guessing every value of [1, max] once, in any order, on a
\* fresh session gets exactly one "correct", and every other answer is
\* "low" or "high" as the value lies below or above the secret.
C13_ExactlyOneCorrect ==
    SweepDone
        => /\ Cardinality({ i \in 1 .. Len(log) : log[i][2] = "correct" }) = 1
           /\ \A i \in 1 .. Len(log) : log[i][2] = Ordering(log[i][1])

\* C13, amended: guessing every value of [1, max] once, in any order, on a
\* fresh session gets "correct" for the guess equal to the secret and for
\* every guess after it, and "low" or "high" as the value lies below or
\* above the secret for every guess before it.
C13_CorrectFromSecretOn ==
    SweepDone
        => \E k \in 1 .. Len(log) :
               /\ log[k][1] = secret
               /\ \A i \in 1 .. Len(log) :
                      log[i][2] = (IF i < k THEN Ordering(log[i][1])
                                   ELSE "correct")

\* The range [1, 4] guessed in the order 1, 4, 2, 3 with the secret 2.
C13_Witness ==
    /\ max = 4 /\ secret = 2
    /\ log = << <<1, "low">>, <<4, "high">>, <<2, "correct">>, <<3, "correct">> >>

C15_SecretOnlyThroughOrdering ==
    \A s2 \in 1 .. max :
        LET other == Game(s2, max, attempts, finished)
        IN  /\ get_attempts(other) = get_attempts(this)
            /\ get_max(other) = get_max(this)
            /\ ~finished
                => \A value \in GuessArgs :
                       ((value < secret /\ value < s2)
                            \/ (value > secret /\ value > s2))
                           => LET r1 == guess(this, value)
                                  r2 == guess(other, value)
                              IN  /\ r2.ret = r1.ret
                                  /\ r2.game.attempts = r1.game.attempts
                                  /\ r2.game.finished = r1.game.finished

\* A guess answered "low" that lies below another possible secret as well.
C15_Witness ==
    /\ op = "guess" /\ ret.result = "low" /\ ~finished
    /\ arg[1] + 2 <= secret

\* C16: an in-range guess on an unfinished game whose attempts are at
\* u32::MAX leaves attempts at u32::MAX, still answers by the comparison
\* with the secret, and still sets finished when the guess equals it.
C16_AttemptsSaturate ==
    (op = "guess" /\ InRange(arg[1], before.max) /\ ~before.finished
            /\ before.attempts = U32Max)
        => /\ attempts = U32Max
           /\ ret = GuessResponse(
                        IF arg[1] < before.secret THEN "low"
                        ELSE IF arg[1] > before.secret THEN "high"
                        ELSE "correct",
                        U32Max)
           /\ finished = (arg[1] = before.secret)

\* The secret guessed with the counter at u32::MAX.
C16_Witness ==
    /\ op = "guess" /\ ~before.finished /\ before.attempts = U32Max
    /\ finished
    /\ ret = GuessResponse("correct", U32Max)

\* C17: no guess changes secret or max; secret changes only in a reset, max
\* only in a reset given a bound; get_attempts and get_max change no field.
C17_Frame ==
    /\ (op = "guess") => (secret = before.secret /\ max = before.max)
    /\ (secret # before.secret) => (op = "reset")
    /\ (max # before.max) => (op = "reset" /\ arg # None)
    /\ (op \in {"get_attempts", "get_max"}) => (this = before)

\* The winning guess: attempts and finished both change, secret and max do
\* not.
C17_Witness ==
    /\ op = "guess"
    /\ attempts # before.attempts /\ finished # before.finished
    /\ max > 1

\* C18: a finished game has attempts >= 1, and attempts is the number of
\* in-range guesses made on the unfinished game since it was constructed or
\* last reset, cut to u32::MAX; guesses out of range and guesses after the
\* win are not in it.
C18_AttemptsCountGuesses ==
    /\ finished => (attempts # u32(0))
    /\ attempts = (IF counted[1] >= Half THEN U32Max ELSE counted)

\* Two guesses more than u32::MAX counted, the second after a guess thrown
\* out of range.
C18_Witness ==
    /\ counted = <<Half, 1>>
    /\ attempts = U32Max
    /\ op = "guess" /\ ret = Throw

\* The largest k with 2^k <= n (0 for n <= 1).
RECURSIVE Log2Floor(_)
Log2Floor(n) == IF n <= 1 THEN 0 ELSE 1 + Log2Floor(n \div 2)

\* C19: the player who halves the interval never gets a guess thrown, always
\* has a next in-range guess to make while the game is unfinished, and has
\* the answer "correct" after at most floor(log2(max)) + 1 guesses, the
\* attempts returned being the number of guesses made.
C19_BinarySearchWins ==
    /\ \A i \in 1 .. Len(log) : log[i][2] \in {"low", "high", "correct"}
    /\ Len(log) <= Log2Floor(max) + 1
    /\ attempts = u32(Len(log))
    /\ ~finished
        => /\ lo <= hi
           /\ InRange((lo + hi) \div 2, max)
           /\ Len(log) < Log2Floor(max) + 1
    /\ finished
        => /\ ret = GuessResponse("correct", u32(Len(log)))
           /\ log[Len(log)] = <<secret, "correct">>

\* The default range won at the seventh guess.
C19_Witness ==
    /\ max = 100 /\ finished
    /\ Len(log) = 7
    /\ ret = GuessResponse("correct", u32(7))

====
